---- MODULE Spec2Model ----
(***************************************************************************)
(* serial_test: in-process serial/parallel coordination of test bodies.    *)
(*                                                                         *)
(* Spec models rwlock.rs (Locks): threads call serial(), drop the guard,   *)
(* start_parallel() and end_parallel() on per-key lock objects, also from  *)
(* inside a section they already hold (nested calls).                      *)
(*                                                                         *)
(* One loop iteration of serial() / start_parallel() runs with the         *)
(* LockData.mutex held from its first line to the return or to the         *)
(* condvar wait, which releases the mutex; ReentrantMutex::try_lock is one *)
(* atomic operation.  An iteration is therefore one step of the model and  *)
(* the mutex has no variable of its own.                                   *)
(*                                                                         *)
(* SpecCodeLock models code_lock.rs: the registry LOCKS behind its RwLock, *)
(* check_new_key and the single-key local_serial_core of that file.        *)
(*                                                                         *)
(* SpecCore models the multi-key entry points of serial_code_lock.rs and   *)
(* parallel_code_lock.rs on top of check_new_key and Locks; SpecTagged is  *)
(* SpecCore for callers that come through the attribute macros (get_config *)
(* sorts the keys), each caller making one call, with fairness; SpecAsync  *)
(* models the async serial entry points.                                   *)
(***************************************************************************)
EXTENDS Naturals, Sequences, FiniteSets

\* Bounds of the model.
NumThreads == 2
MaxDepth == 2

Threads == 1..NumThreads
\* The lock keys the threads use, in their sort order
KeyOrder == <<"a", "b">>
Keys == {KeyOrder[i] : i \in 1..Len(KeyOrder)}
\* the place of a key in the sort order
KeyRank(k) == CHOOSE i \in 1..Len(KeyOrder) : KeyOrder[i] = k
\* "no thread": the owner of an unlocked ReentrantMutex
None == 0

VARIABLES
    parallels,  \* [Keys -> Nat]: LockState.parallels of the key's Locks
    serial,     \* [Keys -> [owner, count]]: LockData.serial, a ReentrantMutex
    pc,         \* [Threads -> STRING]: where each thread is
    stack,      \* [Threads -> Seq([mode, key])]: the Locks calls of a thread
                \* that have not been given back: serial guards and parallel
                \* participations, the last one still pending while the
                \* thread is in the wait loop of the call
    reentered,  \* [Keys -> BOOLEAN]: history, the owner of serial has locked
                \* it again since it became the owner
    LOCKS,      \* [Keys -> Nat]: the registry, the id of the key's lock
                \* object, 0 for a key that has no entry
    MUTEX_ID,   \* the next id UniqueReentrantMutex::default() draws
    readers,    \* [Threads -> Nat]: read guards of the RwLock around LOCKS
    call,       \* [Threads -> [fn, names]]: the entry point a thread is in
    seen,       \* [Threads -> Nat]: the id of the lock object the thread
                \* found in LOCKS for the key it locks
    flock,      \* [Keys -> owner]: the advisory lock of the lock file of a
                \* key's path, None when no LockFile handle holds it
    sidecar,    \* [Keys -> file]: the file <path>-count, Missing or a File
                \* with its bytes
    created,    \* the paths whose lock file exists
    work,       \* [Threads -> outcome]: how the protected work of the call
                \* ended
    observed    \* [Threads -> outcome]: what the caller of the entry point
                \* got back from its last call

lockVars == <<parallels, serial, reentered>>
regVars == <<LOCKS, MUTEX_ID, readers>>
callVars == <<call, seen>>
fileVars == <<flock, sidecar, created>>
outVars == <<work, observed>>
vars == <<parallels, serial, pc, stack, reentered, LOCKS, MUTEX_ID, readers, call, seen,
          flock, sidecar, created, work, observed>>

\* a thread that is in no entry point: it calls the methods of Locks itself
NoCall == [fn |-> "none", names |-> << >>]

\* the pc of a thread that releases what it holds: a thread in no entry point
\* drops its guards itself, an entry point drops them when it returns
Releasing(t) == IF call[t].fn = "none" THEN "ready" ELSE "unwind"

Unlocked == [owner |-> None, count |-> 0]

Frame(m, k) == [mode |-> m, key |-> k]

WaitPcs == {"serial_wait", "parallel_wait"}
WokenPcs == {"serial_woken", "parallel_woken"}

Top(t) == stack[t][Len(stack[t])]

Pop(t) == SubSeq(stack[t], 1, Len(stack[t]) - 1)

\* the frames of the calls that have returned: what the thread holds
Held(t) == IF pc[t] \in WaitPcs \cup WokenPcs THEN Pop(t) ELSE stack[t]

\* a try_lock that does not look at the owner
try_lock_any(t, k) == TRUE

\* ReentrantMutex::try_lock as called by thread t: free, or owned by t itself
try_lock(t, k) == serial[k].owner \in {None, t}

\* the ReentrantMutex after thread t has locked it (once more)
lock_acquired(t, k) == [owner |-> t, count |-> serial[k].count + 1]

\* dropping one ReentrantMutexGuard
lock_released(k) ==
    IF serial[k].count <= 1 THEN Unlocked
    ELSE [serial[k] EXCEPT !.count = serial[k].count - 1]

\* threads blocked in condvar.wait_for of key k
Waiters(k) == {t \in Threads : pc[t] \in WaitPcs /\ Top(t).key = k}

Woken(p) == IF p = "serial_wait" THEN "serial_woken" ELSE "parallel_woken"

\* Condvar::notify_one on key k, taking the pc function p to q: wakes one of
\* the waiters, any of them; does nothing when nobody waits
notify_one(k, p, q) ==
    IF Waiters(k) = {} THEN q = p
    ELSE \E w \in Waiters(k) : q = [p EXCEPT ![w] = Woken(p[w])]

\* the statics of code_lock.rs before their first use
InitRegistry ==
    /\ LOCKS = [k \in Keys |-> 0]
    /\ MUTEX_ID = 1
    /\ readers = [t \in Threads |-> 0]

InitLocks ==
    /\ parallels = [k \in Keys |-> 0]
    /\ serial = [k \in Keys |-> Unlocked]
    /\ reentered = [k \in Keys |-> FALSE]

InitThreads ==
    /\ pc = [t \in Threads |-> "ready"]
    /\ stack = [t \in Threads |-> << >>]
    /\ call = [t \in Threads |-> NoCall]
    /\ seen = [t \in Threads |-> 0]

\* a sidecar file with its bytes
File(b) == [exists |-> TRUE, bytes |-> b]

\* a sidecar file that does not exist
Missing == [exists |-> FALSE, bytes |-> << >>]

\* no lock file is locked and no count has been written yet
InitFiles ==
    /\ flock = [k \in Keys |-> None]
    /\ sidecar = [k \in Keys |-> Missing]
    /\ created = {}

InitOutcomes ==
    /\ work = [t \in Threads |-> "none"]
    /\ observed = [t \in Threads |-> "none"]

Init == InitLocks /\ InitThreads /\ InitRegistry /\ InitFiles /\ InitOutcomes

\* an entry point that runs the function once its first name is locked
NextPcFirst(c, n) == IF c.fn = "none" THEN "ready" ELSE "run"

\* where a thread goes on when a call of Locks has returned, n of the keys of
\* its entry point then being done: a thread in no entry point is free again;
\* core_internal calls itself with the remaining names while names.len() > 1
\* and runs the function after the last; local_async_serial_core locks the
\* first name only
NextPc(c, n) ==
    IF c.fn = "none" THEN "ready"
    ELSE IF c.fn = "local_async_serial_core" THEN "run"
    ELSE IF n < Len(c.names) THEN "check"
    ELSE "run"

\* a thread that calls Locks itself from inside a section calls the Locks of
\* the section's key; sections on several keys are taken by the multi-key
\* entry points
InSectionOn(t, k) == IF stack[t] = << >> THEN TRUE ELSE Top(t).key = k

\* one iteration of the loop of Locks::serial
SerialLoop(t, k) ==
    IF parallels[k] = 0 /\ try_lock(t, k)
    THEN /\ serial' = [serial EXCEPT ![k] = lock_acquired(t, k)]
         /\ reentered' = [reentered EXCEPT ![k] = serial[k].owner = t]
         /\ pc' = [pc EXCEPT ![t] = NextPc(call[t], Len(Held(t)) + 1)]
         /\ UNCHANGED parallels
    ELSE /\ pc' = [pc EXCEPT ![t] = "serial_wait"]
         /\ UNCHANGED lockVars

\* Locks::serial, from the call to the first return or wait
Serial(t, k) ==
    /\ pc[t] = "ready"
    /\ Len(stack[t]) < MaxDepth
    /\ InSectionOn(t, k)
    /\ stack' = [stack EXCEPT ![t] = Append(@, Frame("serial", k))]
    /\ SerialLoop(t, k)
    /\ UNCHANGED <<regVars, callVars>>
    /\ UNCHANGED <<fileVars, outVars>>

\* Locks::serial after wait_for has returned
SerialRetry(t) ==
    /\ pc[t] = "serial_woken"
    /\ SerialLoop(t, Top(t).key)
    /\ UNCHANGED <<stack, regVars, callVars>>
    /\ UNCHANGED <<fileVars, outVars>>

\* a fast path that stores 1, as the slow path does
FastPathReset(n) == 1

\* the count start_parallel sets on its fast path
FastPathCount(n) == n + 1

\* one iteration of the loop of Locks::start_parallel
ParallelLoop(t, k) ==
    IF parallels[k] > 0
    THEN /\ parallels' = [parallels EXCEPT ![k] = FastPathCount(parallels[k])]
         /\ pc' = [pc EXCEPT ![t] = NextPc(call[t], Len(Held(t)) + 1)]
         /\ UNCHANGED <<serial, reentered>>
    ELSE IF try_lock(t, k)
    THEN \* possible_serial_lock is dropped again at the return
         /\ parallels' = [parallels EXCEPT ![k] = 1]
         /\ pc' = [pc EXCEPT ![t] = NextPc(call[t], Len(Held(t)) + 1)]
         /\ UNCHANGED <<serial, reentered>>
    ELSE /\ pc' = [pc EXCEPT ![t] = "parallel_wait"]
         /\ UNCHANGED lockVars

\* Locks::start_parallel, from the call to the first return or wait
StartParallel(t, k) ==
    /\ pc[t] = "ready"
    /\ Len(stack[t]) < MaxDepth
    /\ InSectionOn(t, k)
    /\ stack' = [stack EXCEPT ![t] = Append(@, Frame("parallel", k))]
    /\ ParallelLoop(t, k)
    /\ UNCHANGED <<regVars, callVars>>
    /\ UNCHANGED <<fileVars, outVars>>

\* Locks::start_parallel after wait_for has returned
ParallelRetry(t) ==
    /\ pc[t] = "parallel_woken"
    /\ ParallelLoop(t, Top(t).key)
    /\ UNCHANGED <<stack, regVars, callVars>>
    /\ UNCHANGED <<fileVars, outVars>>

\* a wait_for that returns on a notification only
no_timeout(t) == FALSE

\* condvar.wait_for(.., 1 s) returns without a notification
WaitTimeout(t) ==
    /\ pc[t] \in WaitPcs
    /\ pc' = [pc EXCEPT ![t] = Woken(pc[t])]
    /\ UNCHANGED <<lockVars, stack, regVars, callVars>>
    /\ UNCHANGED <<fileVars, outVars>>

\* an end_parallel that leaves the count as it is
end_parallel_keep(k) ==
    /\ parallels[k] > 0
    /\ parallels' = parallels
    /\ notify_one(k, pc, pc')
    /\ UNCHANGED <<serial, reentered>>

\* an end_parallel on a lock state that all keys share
end_parallel_shared(k) ==
    /\ parallels[k] > 0
    /\ parallels' = [j \in Keys |-> IF parallels[j] > 0 THEN parallels[j] - 1 ELSE 0]
    /\ notify_one(k, pc, pc')
    /\ UNCHANGED <<serial, reentered>>

\* Locks::end_parallel on key k
end_parallel(k) ==
    /\ parallels[k] > 0
    /\ parallels' = [parallels EXCEPT ![k] = @ - 1]
    /\ notify_one(k, pc, pc')
    /\ UNCHANGED <<serial, reentered>>

\* Locks::end_parallel of the participation the thread started last
EndParallel(t) ==
    /\ pc[t] = "ready"
    /\ stack[t] # << >>
    /\ Top(t).mode = "parallel"
    /\ end_parallel(Top(t).key)
    /\ stack' = [stack EXCEPT ![t] = Pop(t)]
    /\ UNCHANGED <<regVars, callVars>>
    /\ UNCHANGED <<fileVars, outVars>>

\* Drop for MutexGuardWrapper, the body: notify_one, the lock still held
DropNotify(t) ==
    /\ pc[t] = Releasing(t)
    /\ stack[t] # << >>
    /\ Top(t).mode = "serial"
    /\ notify_one(Top(t).key, [pc EXCEPT ![t] = "drop"], pc')
    /\ UNCHANGED <<lockVars, stack, regVars, callVars>>
    /\ UNCHANGED <<fileVars, outVars>>

\* Drop for MutexGuardWrapper, the field mutex_guard: the ReentrantMutexGuard
\* is dropped after the body of drop has run
DropUnlock(t) ==
    /\ pc[t] = "drop"
    /\ serial' = [serial EXCEPT ![Top(t).key] = lock_released(Top(t).key)]
    /\ reentered' = [reentered EXCEPT ![Top(t).key] = @ /\ serial[Top(t).key].count > 1]
    /\ stack' = [stack EXCEPT ![t] = Pop(t)]
    /\ pc' = [pc EXCEPT ![t] = Releasing(t)]
    /\ UNCHANGED <<parallels, regVars, callVars>>
    /\ UNCHANGED <<fileVars, outVars>>

\* the threads call the methods of Locks themselves: no entry point, no
\* registry
Next ==
    \E t \in Threads :
        \/ \E k \in Keys : Serial(t, k)
        \/ SerialRetry(t)
        \/ \E k \in Keys : StartParallel(t, k)
        \/ ParallelRetry(t)
        \/ WaitTimeout(t)
        \/ EndParallel(t)
        \/ DropNotify(t)
        \/ DropUnlock(t)

Spec == Init /\ [][Next]_vars

\* the steps of thread t inside the wait loop of serial or start_parallel:
\* wait_for returns after its second at the latest, and a thread that runs
\* takes the next iteration
WaitLoop(t) ==
    \/ WaitTimeout(t)
    \/ SerialRetry(t)
    \/ ParallelRetry(t)

\* the threads of Spec with a scheduler that lets every waiting thread run;
\* whether and when a thread gives back what it holds is up to the thread
SpecWait == Init /\ [][Next]_vars /\ \A t \in Threads : WF_vars(WaitLoop(t))

----
\* The registry (code_lock.rs)

\* the key lists an entry point is called with
NameLists == {<<k>> : k \in Keys} \cup {p \in Keys \X Keys : p[1] # p[2]}

\* the name the entry point of thread t works on: core_internal and the
\* iterators over names take the names one after the other
CurrentName(t) == call[t].names[Len(Held(t)) + 1]

\* an insert that puts a new lock object in place of the entry
insert_default(m, name) == [m EXCEPT ![name] = MUTEX_ID]

\* HashMap::entry(name).or_default(): UniqueReentrantMutex::default() runs,
\* and draws MUTEX_ID, only if the name has no entry
or_default(m, name) == IF m[name] = 0 THEN [m EXCEPT ![name] = MUTEX_ID] ELSE m

\* check_new_key, the probe: under a read guard that is dropped again, look
\* whether the name is in LOCKS.  try_read_recursive_for fails only while a
\* writer holds the RwLock, and a writer holds it within one step only.
CheckNewKeyProbe(t) ==
    /\ pc[t] = "check"
    /\ pc' = [pc EXCEPT ![t] = IF LOCKS[CurrentName(t)] = 0 THEN "write" ELSE "locate"]
    /\ UNCHANGED <<lockVars, stack, regVars, callVars>>
    /\ UNCHANGED <<fileVars, outVars>>

\* check_new_key, new_key: try_write_for succeeds once no read guard is out,
\* entry(name).or_default() and the write guard is dropped
CheckNewKeyInsert(t) ==
    /\ pc[t] = "write"
    /\ \A u \in Threads : readers[u] = 0
    /\ LOCKS' = or_default(LOCKS, CurrentName(t))
    /\ MUTEX_ID' = IF LOCKS' = LOCKS THEN MUTEX_ID ELSE MUTEX_ID + 1
    /\ pc' = [pc EXCEPT ![t] = "locate"]
    /\ UNCHANGED <<lockVars, stack, readers, callVars>>
    /\ UNCHANGED <<fileVars, outVars>>

\* check_new_key, new_key: read guards stay out for wait_duration(), so
\* try_write_for returns None and expect("write lock didn't work") panics
CheckNewKeyTimeout(t) ==
    /\ pc[t] = "write"
    /\ \E u \in Threads : readers[u] > 0
    /\ pc' = [pc EXCEPT ![t] = "panicked"]
    /\ UNCHANGED <<lockVars, stack, regVars, callVars>>
    /\ UNCHANGED <<fileVars, outVars>>

----
\* The single-key entry point of code_lock.rs

\* local_serial_core(name, function) / local_serial_core_with_return
CodeLockCall(t, k) ==
    /\ pc[t] = "ready"
    /\ stack[t] = << >>
    /\ call' = [call EXCEPT ![t] = [fn |-> "code_lock::local_serial_core", names |-> <<k>>]]
    /\ pc' = [pc EXCEPT ![t] = "check"]
    /\ UNCHANGED <<lockVars, stack, regVars, seen>>
    /\ UNCHANGED <<fileVars, outVars>>

\* let unlock = LOCKS.read_recursive(); unlock.deref()[name]
ReadRecursive(t) ==
    /\ pc[t] = "locate"
    /\ call[t].fn = "code_lock::local_serial_core"
    /\ readers' = [readers EXCEPT ![t] = @ + 1]
    /\ seen' = [seen EXCEPT ![t] = LOCKS[CurrentName(t)]]
    /\ pc' = [pc EXCEPT ![t] = "mutex"]
    /\ UNCHANGED <<lockVars, stack, LOCKS, MUTEX_ID, call>>
    /\ UNCHANGED <<fileVars, outVars>>

\* UniqueReentrantMutex::lock: ReentrantMutex::lock returns once the mutex
\* is free; then function() starts
MutexLock(t) ==
    /\ pc[t] = "mutex"
    /\ try_lock(t, CurrentName(t))
    /\ serial' = [serial EXCEPT ![CurrentName(t)] = lock_acquired(t, CurrentName(t))]
    /\ stack' = [stack EXCEPT ![t] = Append(@, Frame("serial", CurrentName(t)))]
    /\ pc' = [pc EXCEPT ![t] = "run"]
    /\ UNCHANGED <<parallels, reentered, regVars, callVars>>
    /\ UNCHANGED <<fileVars, outVars>>

\* function() returns: _guard is dropped, then unlock
CodeLockReturn(t) ==
    /\ pc[t] = "run"
    /\ call[t].fn = "code_lock::local_serial_core"
    /\ serial' = [serial EXCEPT ![Top(t).key] = lock_released(Top(t).key)]
    /\ stack' = [stack EXCEPT ![t] = Pop(t)]
    /\ readers' = [readers EXCEPT ![t] = @ - 1]
    /\ seen' = [seen EXCEPT ![t] = 0]
    /\ call' = [call EXCEPT ![t] = NoCall]
    /\ pc' = [pc EXCEPT ![t] = "ready"]
    /\ UNCHANGED <<parallels, reentered, LOCKS, MUTEX_ID>>
    /\ UNCHANGED <<fileVars, outVars>>

NextCodeLock ==
    \E t \in Threads :
        \/ \E k \in Keys : CodeLockCall(t, k)
        \/ CheckNewKeyProbe(t)
        \/ CheckNewKeyInsert(t)
        \/ CheckNewKeyTimeout(t)
        \/ ReadRecursive(t)
        \/ MutexLock(t)
        \/ CodeLockReturn(t)

SpecCodeLock == Init /\ [][NextCodeLock]_vars

\* function(), running under the guard of one key, calls local_serial_core
\* with another key k: names keeps the keys of the calls that are open, the
\* outer call first; the read guard of the outer call stays out
CodeLockNested(t, k) ==
    /\ pc[t] = "run"
    /\ call[t].fn = "code_lock::local_serial_core"
    /\ Len(stack[t]) = 1
    /\ k # Top(t).key
    /\ call' = [call EXCEPT ![t].names = Append(@, k)]
    /\ pc' = [pc EXCEPT ![t] = "check"]
    /\ UNCHANGED <<lockVars, stack, regVars, seen>>
    /\ UNCHANGED <<fileVars, outVars>>

\* the inner function() returns: the inner _guard and unlock are dropped and
\* the outer function() goes on
CodeLockNestedReturn(t) ==
    /\ pc[t] = "run"
    /\ call[t].fn = "code_lock::local_serial_core"
    /\ Len(stack[t]) = 2
    /\ serial' = [serial EXCEPT ![Top(t).key] = lock_released(Top(t).key)]
    /\ stack' = [stack EXCEPT ![t] = Pop(t)]
    /\ readers' = [readers EXCEPT ![t] = @ - 1]
    /\ seen' = [seen EXCEPT ![t] = LOCKS[call[t].names[1]]]
    /\ call' = [call EXCEPT ![t].names = <<call[t].names[1]>>]
    /\ UNCHANGED <<pc, parallels, reentered, LOCKS, MUTEX_ID>>
    /\ UNCHANGED <<fileVars, outVars>>

\* the threads call local_serial_core, and from inside it local_serial_core
\* with another key
NextNested ==
    \E t \in Threads :
        \/ \E k \in Keys : CodeLockCall(t, k)
        \/ \E k \in Keys : CodeLockNested(t, k)
        \/ CheckNewKeyProbe(t)
        \/ CheckNewKeyInsert(t)
        \/ CheckNewKeyTimeout(t)
        \/ ReadRecursive(t)
        \/ MutexLock(t)
        \/ Len(stack[t]) = 1 /\ CodeLockReturn(t)
        \/ CodeLockNestedReturn(t)

SpecNested == Init /\ [][NextNested]_vars

----
\* The multi-key entry points (serial_code_lock.rs, parallel_code_lock.rs)

SyncFns == {"local_serial_core", "local_parallel_core"}

AsyncFns == {"local_async_serial_core", "local_async_serial_core_with_return"}

\* LOCKS.get(name) / global_locks().get(name): the registry's lookup, which
\* hands out the lock object of the name and keeps no lock of the registry
get(name) == LOCKS[name]

\* Locks::is_locked_by_current_thread on the lock object of key k, asked by
\* thread t
is_locked_by_current_thread(t, k) == serial[k].owner = t

\* is_locked_serially(name), asked by thread t: the lock object of the name
\* is looked up in the registry; a name that has none is not locked
is_locked_serially(t, name) ==
    IF get(name) = 0 THEN FALSE ELSE is_locked_by_current_thread(t, name)

\* a caller calls entry point f with key list ns
CoreCall(t, f, ns) ==
    /\ pc[t] = "ready"
    /\ stack[t] = << >>
    /\ call' = [call EXCEPT ![t] = [fn |-> f, names |-> ns]]
    /\ pc' = [pc EXCEPT ![t] = "check"]
    /\ UNCHANGED <<lockVars, stack, regVars, seen>>
    /\ UNCHANGED <<fileVars, outVars>>

\* after check_new_key(name): LOCKS.get(name).expect("key to be set") and what
\* the entry point does with the lock object
\*   core_internal, local_async_serial_core: unlock.lock(), Locks::serial
\*   local_parallel_core: lock.start_parallel()
\*   local_async_serial_core_with_return: the object goes into unlocks; the
\*     iterator unlocks.iter().map(|unlock| unlock.lock()) is never consumed,
\*     its closure never runs
CoreLocate(t) ==
    /\ pc[t] = "locate"
    /\ get(CurrentName(t)) # 0
    /\ \/ /\ call[t].fn \in {"local_serial_core", "local_async_serial_core"}
          /\ stack' = [stack EXCEPT ![t] = Append(@, Frame("serial", CurrentName(t)))]
          /\ SerialLoop(t, CurrentName(t))
       \/ /\ call[t].fn = "local_parallel_core"
          /\ stack' = [stack EXCEPT ![t] = Append(@, Frame("parallel", CurrentName(t)))]
          /\ ParallelLoop(t, CurrentName(t))
       \/ /\ call[t].fn = "local_async_serial_core_with_return"
          /\ stack' = [stack EXCEPT ![t] = Append(@, Frame("unlock", CurrentName(t)))]
          /\ pc' = [pc EXCEPT ![t] = NextPc(call[t], Len(stack[t]) + 1)]
          /\ UNCHANGED lockVars
    /\ UNCHANGED <<regVars, callVars>>
    /\ UNCHANGED <<fileVars, outVars>>

\* function() returns or unwinds, or the future completes; unlocks, a vector
\* of references, goes out of scope
FnReturn(t) ==
    /\ pc[t] = "run"
    /\ call[t].fn \in SyncFns \cup AsyncFns
    /\ pc' = [pc EXCEPT ![t] = "unwind"]
    /\ stack' = [stack EXCEPT ![t] = IF call[t].fn = "local_async_serial_core_with_return"
                                      THEN << >> ELSE @]
    /\ UNCHANGED <<lockVars, regVars, callVars>>
    /\ UNCHANGED <<fileVars, outVars>>

\* locks.iter().for_each(|lock| lock.end_parallel()): first key first
EndParallelEach(t) ==
    /\ pc[t] = "unwind"
    /\ stack[t] # << >>
    /\ Head(stack[t]).mode = "parallel"
    /\ end_parallel(Head(stack[t]).key)
    /\ stack' = [stack EXCEPT ![t] = Tail(@)]
    /\ UNCHANGED <<regVars, callVars>>
    /\ UNCHANGED <<fileVars, outVars>>

\* the entry point returns to its caller
Finish(t) ==
    /\ pc[t] = "unwind"
    /\ stack[t] = << >>
    /\ call' = [call EXCEPT ![t] = NoCall]
    /\ pc' = [pc EXCEPT ![t] = "ready"]
    /\ UNCHANGED <<lockVars, stack, regVars, seen>>
    /\ UNCHANGED <<fileVars, outVars>>

\* the steps of a thread inside Locks and inside the drop of a guard
LocksStep(t) ==
    \/ SerialRetry(t)
    \/ ParallelRetry(t)
    \/ WaitTimeout(t)
    \/ DropNotify(t)
    \/ DropUnlock(t)

\* the same for a thread that only ever calls Locks::serial
SerialStep(t) ==
    \/ SerialRetry(t)
    \/ WaitTimeout(t)
    \/ DropNotify(t)
    \/ DropUnlock(t)

NextCore ==
    \E t \in Threads :
        \/ \E f \in SyncFns : \E ns \in NameLists : CoreCall(t, f, ns)
        \/ CheckNewKeyProbe(t)
        \/ CheckNewKeyInsert(t)
        \/ CoreLocate(t)
        \/ FnReturn(t)
        \/ EndParallelEach(t)
        \/ Finish(t)
        \/ LocksStep(t)

SpecCore == Init /\ [][NextCore]_vars

NextAsync ==
    \E t \in Threads :
        \/ \E f \in AsyncFns : \E ns \in NameLists : CoreCall(t, f, ns)
        \/ CheckNewKeyProbe(t)
        \/ CheckNewKeyInsert(t)
        \/ CoreLocate(t)
        \/ FnReturn(t)
        \/ Finish(t)
        \/ SerialStep(t)

SpecAsync == Init /\ [][NextAsync]_vars

----
\* How the protected work ends and what the caller of the entry point gets

\* the ways the protected work can end: it returns (), Ok(()) or an Err, or
\* it panics
Outcomes == {"ok", "err", "panic"}

\* panic::catch_unwind(function) / fut.catch_unwind().await
catch_unwind(o) ==
    IF o = "panic" THEN [tag |-> "Err", val |-> o] ELSE [tag |-> "Ok", val |-> o]

\* an entry point that drops the payload of a caught panic
swallow(res) == IF res.tag = "Ok" THEN res.val ELSE "ok"

\* match res { Ok(ret) => ret, Err(err) => panic::resume_unwind(err) }
resume_unwind(res) == IF res.tag = "Ok" THEN res.val ELSE res.val

\* the entry points that run the work under catch_unwind
CatchFns == {"local_parallel_core", "fs_serial_core", "fs_parallel_core"}

\* what leaves entry point f when the work ended with o: the parallel and the
\* file entry points catch a panic and resume it after the release; the
\* serial entry points of serial_code_lock.rs pass the value on, and a panic
\* unwinds through the guards
leaves(f, o) == IF f \in CatchFns THEN resume_unwind(catch_unwind(o)) ELSE o

\* the protected work ends with outcome o
WorkEnds(t, o) ==
    /\ pc[t] = "run"
    /\ call[t].fn \in SyncFns \cup AsyncFns
    /\ work' = [work EXCEPT ![t] = o]
    /\ pc' = [pc EXCEPT ![t] = "unwind"]
    /\ stack' = [stack EXCEPT ![t] = IF call[t].fn = "local_async_serial_core_with_return"
                                      THEN << >> ELSE @]
    /\ UNCHANGED <<lockVars, regVars, callVars, fileVars, observed>>

\* everything the entry point releases is released: the value is returned,
\* or the panic goes on, to the caller
Leave(t) ==
    /\ pc[t] = "unwind"
    /\ stack[t] = << >>
    /\ observed' = [observed EXCEPT ![t] = leaves(call[t].fn, work[t])]
    /\ pc' = [pc EXCEPT ![t] = "returned"]
    /\ UNCHANGED <<lockVars, stack, regVars, callVars, fileVars, work>>

\* the caller goes on
GoOn(t) ==
    /\ pc[t] = "returned"
    /\ call' = [call EXCEPT ![t] = NoCall]
    /\ work' = [work EXCEPT ![t] = "none"]
    /\ observed' = [observed EXCEPT ![t] = "none"]
    /\ pc' = [pc EXCEPT ![t] = "ready"]
    /\ UNCHANGED <<lockVars, stack, regVars, seen, fileVars>>

----
\* Callers that come through #[serial(..)] / #[parallel(..)]

\* String::new() / name.unwrap_or_default(): the key of a request that names
\* none
DefaultKey == ""

\* a sort that leaves the list as it is
as_written(s) == s

RECURSIVE sort_insert(_, _)
sort_insert(k, s) ==
    IF s = << >> THEN <<k>>
    ELSE IF KeyRank(k) <= KeyRank(Head(s)) THEN <<k>> \o s
    ELSE <<Head(s)>> \o sort_insert(k, Tail(s))

RECURSIVE sort(_)
\* raw_args.sort()
sort(s) == IF s = << >> THEN << >> ELSE sort_insert(Head(s), sort(Tail(s)))

\* a get_config that keeps the keys as they were written
unsorted(raw_args) == raw_args

\* get_config: the keys of the attribute, the empty key if there is none,
\* sorted
get_config(raw_args) == sort(IF raw_args = << >> THEN <<DefaultKey>> ELSE raw_args)

\* the test thread enters the function the attribute generated: it calls the
\* entry point f with the names get_config made of the attribute's keys
TaggedCall(t, f, raw_args) ==
    /\ pc[t] = "ready"
    /\ stack[t] = << >>
    /\ call' = [call EXCEPT ![t] = [fn |-> f, names |-> get_config(raw_args)]]
    /\ pc' = [pc EXCEPT ![t] = "check"]
    /\ UNCHANGED <<lockVars, stack, regVars, seen>>
    /\ UNCHANGED <<fileVars, outVars>>

\* the registry after every key has been used once, in the order of the keys
InitUsed ==
    /\ LOCKS = [k \in Keys |-> KeyRank(k)]
    /\ MUTEX_ID = Len(KeyOrder) + 1
    /\ readers = [t \in Threads |-> 0]

NextOutcome ==
    \E t \in Threads :
        \/ \E f \in SyncFns : \E raw_args \in NameLists : TaggedCall(t, f, raw_args)
        \/ CheckNewKeyProbe(t)
        \/ CoreLocate(t)
        \/ \E o \in Outcomes : WorkEnds(t, o)
        \/ EndParallelEach(t)
        \/ Leave(t)
        \/ GoOn(t)
        \/ LocksStep(t)

InitOutcome == InitLocks /\ InitThreads /\ InitUsed /\ InitFiles /\ InitOutcomes

SpecOutcome == InitOutcome /\ [][NextOutcome]_vars

\* the entry point returns and the test, with its thread, is over
TestEnd(t) ==
    /\ pc[t] = "unwind"
    /\ stack[t] = << >>
    /\ call' = [call EXCEPT ![t] = NoCall]
    /\ pc' = [pc EXCEPT ![t] = "done"]
    /\ UNCHANGED <<lockVars, stack, regVars, seen>>
    /\ UNCHANGED <<fileVars, outVars>>

\* the steps of test thread t
TaggedStep(t) ==
    \/ \E f \in SyncFns : \E raw_args \in NameLists : TaggedCall(t, f, raw_args)
    \/ CheckNewKeyProbe(t)
    \/ CheckNewKeyInsert(t)
    \/ CoreLocate(t)
    \/ FnReturn(t)
    \/ EndParallelEach(t)
    \/ TestEnd(t)
    \/ LocksStep(t)

NextTagged == \E t \in Threads : TaggedStep(t)

\* every test thread keeps running: a function that was entered returns, and
\* wait_for returns after a second at the latest
SpecTagged == Init /\ [][NextTagged]_vars /\ \A t \in Threads : WF_vars(TaggedStep(t))

----
\* The file locks (file_lock.rs).  A participant is a thread of any process:
\* every Lock has a LockFile handle of its own, and the advisory lock excludes
\* handles, of one process or of several.  The path of a key stands for
\* path_for_name(key); an explicit path is one of these paths.

\* path: Option<&str> = None
NoPath == "None"

\* a resolution that goes by the name, path or no path
path_by_name(name, path) == name

\* make_lock_for_name_and_path: the path the lock of a name is taken on
path_for(name, path) == IF path = NoPath THEN name ELSE path

\* a conversion that keeps the lowest byte only
low_byte(c) == <<c % 256, 0, 0, 0>>

\* u32::to_ne_bytes, least significant byte first
to_ne_bytes(c) ==
    <<c % 256, (c \div 256) % 256, (c \div 65536) % 256, (c \div 16777216) % 256>>

\* u32::from_ne_bytes
from_ne_bytes(b) == b[1] + 256 * b[2] + 65536 * b[3] + 16777216 * b[4]

\* Lock::read_parallel_count: 0 if the file cannot be opened or read_exact
\* does not get its 4 bytes
read_parallel_count(file) ==
    IF ~file.exists THEN 0
    ELSE IF Len(file.bytes) < 4 THEN 0
    ELSE from_ne_bytes(SubSeq(file.bytes, 1, 4))

\* Lock::write_parallel: File::create truncates, write_all writes 4 bytes
write_parallel(parallel_count) == File(to_ne_bytes(parallel_count))

\* a Lock in the hands of a participant: the path it is on and the count it
\* read; a participant inside a parallel section has dropped its Lock, the
\* frame stays as the mark of the section
FileLock(m, k, n) == [mode |-> m, key |-> k, parallel_count |-> n]

\* a lock() that returns without the lock
lock_skipped(f, k, t) == f

\* LockFile::lock by participant t, once it returns
lock(f, k, t) == [f EXCEPT ![k] = t]

\* an unlock that leaves the lock file locked
keep_locked(f, k) == f

\* LockFile::unlock
unlock(f, k) == [f EXCEPT ![k] = None]

\* a start_serial that does not look at the count
admits_any(n) == TRUE

\* Lock::start_serial: if self.parallel_count == 0 { return; }
admits_serial(n) == n = 0

\* an end_parallel that writes the count back as it was
CountKept(n) == n

\* Lock::end_parallel: self.parallel_count -= 1
CountAfterEnd(n) == n - 1

\* a get_locks that lets every request pass
never_ambiguous(names, path) == FALSE

\* get_locks: more than one name together with a path
ambiguous(names, path) == Len(names) > 1 /\ path # NoPath

\* what a function returning () can end with
UnitOutcomes == {"ok", "panic"}

SerialFileFns == {"fs_serial_core"}

ParallelFileFns == {"fs_parallel_core"}

\* fs_serial_core(names, path, function) or fs_parallel_core(name, _, path,
\* function) is called
FsCall(t, f, ns, path) ==
    /\ pc[t] = "ready"
    /\ stack[t] = << >>
    /\ f \in ParallelFileFns => Len(ns) = 1
    /\ call' = [call EXCEPT ![t] = [fn |-> f, names |-> ns, path |-> path]]
    /\ pc' = [pc EXCEPT ![t] = IF f \in SerialFileFns THEN "get_locks" ELSE "new"]
    /\ UNCHANGED <<lockVars, stack, regVars, seen, fileVars, outVars>>

\* get_locks panics on an ambiguous request, before it makes any Lock
GetLocks(t) ==
    /\ pc[t] = "get_locks"
    /\ IF ambiguous(call[t].names, call[t].path)
       THEN /\ observed' = [observed EXCEPT ![t] = "panic"]
            /\ pc' = [pc EXCEPT ![t] = "returned"]
       ELSE \* names.iter().map(..) makes a Lock for every name; with no name
            \* locks is empty and start_serial is called on nothing
            /\ pc' = [pc EXCEPT ![t] = IF call[t].names = << >> THEN "run" ELSE "new"]
            /\ UNCHANGED observed
    /\ UNCHANGED <<lockVars, stack, regVars, callVars, fileVars, work>>

\* the path of the Lock the participant makes next
NextPath(t) == path_for(CurrentName(t), call[t].path)

\* Lock::new: create_lockfile, lockfile.lock() returns once no other handle
\* holds the lock, read_parallel_count
LockNew(t) ==
    /\ pc[t] = "new"
    /\ flock[NextPath(t)] = None
    /\ created' = created \cup {NextPath(t)}
    /\ flock' = lock(flock, NextPath(t), t)
    /\ stack' = [stack EXCEPT ![t] =
          Append(@, FileLock("locked", NextPath(t), read_parallel_count(sidecar[NextPath(t)])))]
    /\ pc' = [pc EXCEPT ![t] =
          IF call[t].fn \in ParallelFileFns THEN "start_parallel"
          ELSE IF Len(stack[t]) + 1 < Len(call[t].names) THEN "new"
          ELSE "start_serial"]
    /\ UNCHANGED <<lockVars, regVars, callVars, sidecar, outVars>>

\* the first Lock of locks on which start_serial has not returned yet
Pending(t) == CHOOSE i \in 1..Len(stack[t]) :
    /\ stack[t][i].mode = "locked"
    /\ \A j \in 1..(i - 1) : stack[t][j].mode = "serial"

\* Lock::start_serial, the loop up to the return or to the sleep
StartSerial(t) ==
    /\ pc[t] = "start_serial"
    /\ IF admits_serial(stack[t][Pending(t)].parallel_count)
       THEN /\ stack' = [stack EXCEPT ![t][Pending(t)].mode = "serial"]
            /\ pc' = [pc EXCEPT ![t] = IF Pending(t) = Len(stack[t]) THEN "run" ELSE "start_serial"]
            /\ UNCHANGED flock
       ELSE /\ flock' = unlock(flock, stack[t][Pending(t)].key)
            /\ pc' = [pc EXCEPT ![t] = "sleep"]
            /\ UNCHANGED stack
    /\ UNCHANGED <<lockVars, regVars, callVars, sidecar, created, outVars>>

\* Lock::start_serial after the sleep: lockfile.lock(), read_parallel_count
Relock(t) ==
    /\ pc[t] = "sleep"
    /\ flock[stack[t][Pending(t)].key] = None
    /\ flock' = lock(flock, stack[t][Pending(t)].key, t)
    /\ stack' = [stack EXCEPT ![t][Pending(t)].parallel_count =
          read_parallel_count(sidecar[stack[t][Pending(t)].key])]
    /\ pc' = [pc EXCEPT ![t] = "start_serial"]
    /\ UNCHANGED <<lockVars, regVars, callVars, sidecar, created, outVars>>

\* Lock::start_parallel: the count goes up by one and is written, the lock is
\* given back and the Lock is dropped
StartParallelFile(t) ==
    /\ pc[t] = "start_parallel"
    /\ sidecar' = [sidecar EXCEPT ![Top(t).key] = write_parallel(Top(t).parallel_count + 1)]
    /\ flock' = unlock(flock, Top(t).key)
    /\ stack' = [stack EXCEPT ![t] = <<FileLock("parallel", Top(t).key, 0)>>]
    /\ pc' = [pc EXCEPT ![t] = "run"]
    /\ UNCHANGED <<lockVars, regVars, callVars, created, outVars>>

\* the protected work of a file entry point ends with outcome o, caught by
\* catch_unwind
FsWorkEnds(t, o) ==
    /\ pc[t] = "run"
    /\ call[t].fn \in SerialFileFns \cup ParallelFileFns
    /\ work' = [work EXCEPT ![t] = o]
    /\ pc' = [pc EXCEPT ![t] = IF call[t].fn \in SerialFileFns THEN "unwind" ELSE "end_new"]
    /\ UNCHANGED <<lockVars, stack, regVars, callVars, fileVars, observed>>

\* locks.into_iter().for_each(|lock| lock.end_serial()): first Lock first
EndSerial(t) ==
    /\ pc[t] = "unwind"
    /\ stack[t] # << >>
    /\ Head(stack[t]).mode = "serial"
    /\ flock' = unlock(flock, Head(stack[t]).key)
    /\ stack' = [stack EXCEPT ![t] = Tail(@)]
    /\ UNCHANGED <<pc, lockVars, regVars, callVars, sidecar, created, outVars>>

\* make_lock_for_name_and_path(name, path) of the end: Lock::new
EndNew(t) ==
    /\ pc[t] = "end_new"
    /\ flock[Top(t).key] = None
    /\ flock' = lock(flock, Top(t).key, t)
    /\ stack' = [stack EXCEPT ![t] =
          <<FileLock("locked", Top(t).key, read_parallel_count(sidecar[Top(t).key]))>>]
    /\ pc' = [pc EXCEPT ![t] = "end_parallel"]
    /\ UNCHANGED <<lockVars, regVars, callVars, sidecar, created, outVars>>

\* Lock::end_parallel, the count above 0
EndParallelFile(t) ==
    /\ pc[t] = "end_parallel"
    /\ Top(t).parallel_count > 0
    /\ sidecar' = [sidecar EXCEPT ![Top(t).key] = write_parallel(CountAfterEnd(Top(t).parallel_count))]
    /\ flock' = unlock(flock, Top(t).key)
    /\ stack' = [stack EXCEPT ![t] = << >>]
    /\ pc' = [pc EXCEPT ![t] = "unwind"]
    /\ UNCHANGED <<lockVars, regVars, callVars, created, outVars>>

\* Lock::is_locked(path): the answer a call would get in this state, which is
\* whether try_lock of a new handle fails
is_locked(path) == flock[path] # None

\* Lock::is_locked when try_lock succeeds: the caller's handle holds the lock
\* until its unlock.  (When try_lock fails the call changes nothing but
\* created.)
IsLockedTry(t, path) ==
    /\ pc[t] = "ready"
    /\ stack[t] = << >>
    /\ ~is_locked(path)
    /\ created' = created \cup {path}
    /\ flock' = [flock EXCEPT ![path] = t]
    /\ stack' = [stack EXCEPT ![t] = <<FileLock("try", path, 0)>>]
    /\ pc' = [pc EXCEPT ![t] = "is_locked"]
    /\ UNCHANGED <<lockVars, regVars, callVars, sidecar, outVars>>

\* Lock::is_locked: lockfile.unlock(), false
IsLockedUnlock(t) ==
    /\ pc[t] = "is_locked"
    /\ flock' = unlock(flock, Top(t).key)
    /\ stack' = [stack EXCEPT ![t] = << >>]
    /\ pc' = [pc EXCEPT ![t] = "ready"]
    /\ UNCHANGED <<lockVars, regVars, callVars, sidecar, created, outVars>>

\* the steps of participant t inside a file entry point
FileStep(t) ==
    \/ LockNew(t)
    \/ StartSerial(t)
    \/ Relock(t)
    \/ StartParallelFile(t)
    \/ \E o \in UnitOutcomes : FsWorkEnds(t, o)
    \/ EndSerial(t)
    \/ EndNew(t)
    \/ EndParallelFile(t)
    \/ Leave(t)

\* participants call the file entry points on the default paths of their keys
\* and ask is_locked_file_serially
NextFile ==
    \E t \in Threads :
        \/ \E ns \in NameLists : FsCall(t, "fs_serial_core", sort(ns), NoPath)
        \/ \E k \in Keys : FsCall(t, "fs_parallel_core", <<k>>, NoPath)
        \/ GetLocks(t)
        \/ FileStep(t)
        \/ GoOn(t)
        \/ \E k \in Keys : IsLockedTry(t, k)
        \/ IsLockedUnlock(t)

SpecFile == Init /\ [][NextFile]_vars

\* every participant calls a file entry point once with an explicit path,
\* with one name, no name or several
NextFilePath ==
    \E t \in Threads :
        \/ \E ns \in NameLists \cup {<<DefaultKey>>} : \E path \in Keys :
              FsCall(t, "fs_serial_core", ns, path)
        \/ \E path \in Keys : FsCall(t, "fs_parallel_core", <<DefaultKey>>, path)
        \/ GetLocks(t)
        \/ FileStep(t)

SpecFilePath == Init /\ [][NextFilePath]_vars

\* The persisted count alone: one participant holds a Lock with some count,
\* the sidecar files hold what some earlier writer, of this crate or not, left

\* values of parallel_count: around the byte borders, up to 2^31 - 1 (the
\* lower half of u32)
CountSamples == {0, 1, 255, 256, 65535, 65536, 16777216, 2147483647}

\* contents of a sidecar: no file, an empty file, fewer than 4 bytes, 4 bytes,
\* more than 4 bytes
FileSamples ==
    {Missing} \cup
    {File(b) : b \in {<< >>, <<7>>, <<7, 7, 7>>, <<2, 1, 0, 0>>, <<3, 0, 0, 0, 9>>}}

InitLock ==
    /\ created = Keys
    /\ sidecar \in [Keys -> FileSamples]
    /\ \E t \in Threads : \E k \in Keys : \E c \in CountSamples :
        /\ flock = [j \in Keys |-> IF j = k THEN t ELSE None]
        /\ pc = [u \in Threads |-> IF u = t THEN "locked" ELSE "ready"]
        /\ stack = [u \in Threads |-> IF u = t THEN <<FileLock("locked", k, c)>> ELSE << >>]
    /\ call = [t \in Threads |-> NoCall]
    /\ seen = [t \in Threads |-> 0]

\* Lock::write_parallel by the holder of a Lock
WriteParallel(t) ==
    /\ pc[t] = "locked"
    /\ sidecar' = [sidecar EXCEPT ![Top(t).key] = write_parallel(Top(t).parallel_count)]
    /\ UNCHANGED <<pc, stack, lockVars, regVars, callVars, flock, created, outVars>>

\* self.parallel_count = Lock::read_parallel_count(&self.path)
ReadParallelCount(t) ==
    /\ pc[t] = "locked"
    /\ stack' = [stack EXCEPT ![t][1].parallel_count = read_parallel_count(sidecar[Top(t).key])]
    /\ UNCHANGED <<pc, lockVars, regVars, callVars, fileVars, outVars>>

NextCount ==
    \E t \in Threads :
        \/ WriteParallel(t)
        \/ ReadParallelCount(t)

InitCount == InitLocks /\ InitRegistry /\ InitOutcomes /\ InitLock

SpecCount == InitCount /\ [][NextCount]_vars

\* The attributes alone: what get_config makes of the keys and the path as
\* they are written

\* the attribute of the test of thread t is written, or rewritten, with the
\* keys raw_args in this order and with or without a path
Configure(t, f, raw_args, path) ==
    /\ pc[t] \in {"ready", "configured"}
    /\ stack[t] = << >>
    /\ call' = [call EXCEPT ![t] =
          [fn |-> f, names |-> get_config(raw_args), path |-> path, attr |-> raw_args]]
    /\ pc' = [pc EXCEPT ![t] = "configured"]
    /\ UNCHANGED <<lockVars, stack, regVars, seen, fileVars, outVars>>

NextConfig ==
    \E t \in Threads : \E f \in SerialFileFns \cup ParallelFileFns :
        \E raw_args \in NameLists \cup {<< >>} : \E path \in Keys \cup {NoPath} :
            Configure(t, f, raw_args, path)

SpecConfig == Init /\ [][NextConfig]_vars

\* The names of the files alone: a name or a path is the sequence of the
\* pieces of its text, and joining texts is joining sequences

\* path: Option<&str> = None, for paths that are texts
NoFile == << >>

\* Lock::gen_count_file: format!("{}-count", path)
gen_count_file(path) == Append(path, "-count")

\* path_for_name: env::temp_dir() joined with "serial-test-" and the name
path_for_name(name) == <<"temp_dir/", "serial-test-">> \o name

\* make_lock_for_name_and_path: the path Lock::new is called with
make_lock_for_name_and_path(name, path_str) ==
    IF path_str # NoFile THEN path_str ELSE path_for_name(name)

\* the keys a test can be given: a key of Keys, or such a key followed by
\* "-count"
FileKeys == {<<k>> : k \in Keys} \cup {<<k, "-count">> : k \in Keys}

\* the explicit paths a test can be given
FilePaths == {<<"dir/", k>> : k \in Keys} \cup {<<"dir/", k, "-count">> : k \in Keys}

\* participant t asks for the Lock of a name, with or without a path: the
\* lock file is the path Lock::new is called with, the count is kept in
\* gen_count_file of that path
MakeLock(t, name, path_str) ==
    /\ pc[t] \in {"ready", "made"}
    /\ stack[t] = << >>
    /\ call' = [call EXCEPT ![t] = [fn |-> "make_lock_for_name_and_path",
                                    names |-> <<name>>, path |-> path_str]]
    /\ stack' = [stack EXCEPT ![t] =
          <<[lockfile |-> make_lock_for_name_and_path(name, path_str),
             countfile |-> gen_count_file(make_lock_for_name_and_path(name, path_str))]>>]
    /\ pc' = [pc EXCEPT ![t] = "made"]
    /\ UNCHANGED <<lockVars, regVars, seen, fileVars, outVars>>

\* the participant is done with its Lock
DropLock(t) ==
    /\ pc[t] = "made"
    /\ call' = [call EXCEPT ![t] = NoCall]
    /\ stack' = [stack EXCEPT ![t] = << >>]
    /\ pc' = [pc EXCEPT ![t] = "ready"]
    /\ UNCHANGED <<lockVars, regVars, seen, fileVars, outVars>>

NextNames ==
    \E t \in Threads :
        \/ \E name \in FileKeys : \E path_str \in FilePaths \cup {NoFile} :
              MakeLock(t, name, path_str)
        \/ DropLock(t)

SpecNames == Init /\ [][NextNames]_vars

\* Both variants side by side

\* the threads call the methods of Locks themselves, one section at a time,
\* and in the end a file entry point with one key, whose work returns
NextBoth ==
    \E t \in Threads :
        \/ \E k \in Keys : stack[t] = << >> /\ Serial(t, k)
        \/ \E k \in Keys : stack[t] = << >> /\ StartParallel(t, k)
        \/ EndParallel(t)
        \/ LocksStep(t)
        \/ \E f \in SerialFileFns \cup ParallelFileFns : \E k \in Keys : FsCall(t, f, <<k>>, NoPath)
        \/ GetLocks(t)
        \/ LockNew(t)
        \/ StartSerial(t)
        \/ Relock(t)
        \/ StartParallelFile(t)
        \/ FsWorkEnds(t, "ok")
        \/ EndSerial(t)
        \/ EndNew(t)
        \/ EndParallelFile(t)
        \/ Leave(t)

SpecBoth == Init /\ [][NextBoth]_vars

\* Sections that always end

\* thread t leaves the section it is in: end_parallel, or the drop of the
\* guard of serial
Release(t) ==
    \/ EndParallel(t)
    \/ DropNotify(t)
    \/ DropUnlock(t)

\* the threads take one section at a time, on any key, again and again
NextFlow ==
    \E t \in Threads :
        \/ \E k \in Keys : stack[t] = << >> /\ Serial(t, k)
        \/ \E k \in Keys : stack[t] = << >> /\ StartParallel(t, k)
        \/ WaitLoop(t)
        \/ Release(t)

\* every section ends, every waiting thread keeps going round its loop;
\* nothing says when a thread asks for its next section
SpecFlow ==
    /\ Init
    /\ [][NextFlow]_vars
    /\ \A t \in Threads : WF_vars(WaitLoop(t)) /\ WF_vars(Release(t))

\* Calls without a key

\* the entry points that take names.first().expect("names length > 0")
FirstFns == {"local_serial_core", "local_async_serial_core"}

\* an entry point of serial_code_lock.rs or parallel_code_lock.rs is called
\* with an empty list of names: first() is None and expect panics; the
\* iterators over names (get_locks, the map of
\* local_async_serial_core_with_return) run over nothing, and so do the
\* for_each over the locks
CoreCallEmpty(t, f) ==
    /\ pc[t] = "ready"
    /\ stack[t] = << >>
    /\ call' = [call EXCEPT ![t] = [fn |-> f, names |-> << >>]]
    /\ IF f \in FirstFns
       THEN /\ observed' = [observed EXCEPT ![t] = "panic"]
            /\ pc' = [pc EXCEPT ![t] = "returned"]
       ELSE /\ pc' = [pc EXCEPT ![t] = "run"]
            /\ UNCHANGED observed
    /\ UNCHANGED <<lockVars, stack, regVars, seen, fileVars, work>>

\* every caller passes an empty list of keys
NextEmpty ==
    \E t \in Threads :
        \/ \E f \in SyncFns \cup AsyncFns : CoreCallEmpty(t, f)
        \/ FsCall(t, "fs_serial_core", << >>, NoPath)
        \/ GetLocks(t)
        \/ \E o \in Outcomes : WorkEnds(t, o)
        \/ \E o \in UnitOutcomes : FsWorkEnds(t, o)
        \/ Leave(t)
        \/ GoOn(t)

SpecEmpty == Init /\ [][NextEmpty]_vars

\* Processes that end abnormally

\* the process of participant t is killed or aborts inside a file entry
\* point: the operating system closes its lock files, which gives back the
\* advisory locks it holds; the sidecar files stay as they are
Crash(t) ==
    /\ pc[t] \notin {"ready", "returned", "dead"}
    /\ call[t].fn \in SerialFileFns \cup ParallelFileFns
    /\ flock' = [k \in Keys |-> IF flock[k] = t THEN None ELSE flock[k]]
    /\ stack' = [stack EXCEPT ![t] = << >>]
    /\ pc' = [pc EXCEPT ![t] = "dead"]
    /\ UNCHANGED <<lockVars, regVars, callVars, sidecar, created, outVars>>

\* what the process of participant t does by itself
Proceeds(t) ==
    \/ GetLocks(t)
    \/ FileStep(t)

\* every process calls a file entry point once, on one key, and may end
\* abnormally at any point of the call
NextCrash ==
    \E t \in Threads :
        \/ \E k \in Keys : FsCall(t, "fs_serial_core", <<k>>, NoPath)
        \/ \E k \in Keys : FsCall(t, "fs_parallel_core", <<k>>, NoPath)
        \/ Proceeds(t)
        \/ Crash(t)

\* a process that has not ended keeps running; the work of every section ends
SpecCrash == Init /\ [][NextCrash]_vars /\ \A t \in Threads : WF_vars(Proceeds(t))

\* every participant calls a file entry point once, on one key, and runs it
\* to its end
NextPoll ==
    \E t \in Threads :
        \/ \E k \in Keys : FsCall(t, "fs_serial_core", <<k>>, NoPath)
        \/ \E k \in Keys : FsCall(t, "fs_parallel_core", <<k>>, NoPath)
        \/ Proceeds(t)

\* a participant keeps running and the work of every section ends; a
\* participant blocked in lockfile.lock() gets the lock when it is free again
\* and again, as it is for the 50 ms of every sleep of start_serial
SpecPoll == Init /\ [][NextPoll]_vars /\ \A t \in Threads : SF_vars(Proceeds(t))

\* every participant calls a file entry point once, with one name and with
\* or without an explicit path; the work returns
NextResolve ==
    \E t \in Threads :
        \/ \E f \in SerialFileFns \cup ParallelFileFns :
              \E k \in Keys : \E path \in Keys \cup {NoPath} : FsCall(t, f, <<k>>, path)
        \/ GetLocks(t)
        \/ LockNew(t)
        \/ StartSerial(t)
        \/ Relock(t)
        \/ StartParallelFile(t)
        \/ FsWorkEnds(t, "ok")
        \/ EndSerial(t)
        \/ EndNew(t)
        \/ EndParallelFile(t)
        \/ Leave(t)

SpecResolve == Init /\ [][NextResolve]_vars

\* Calls of end_parallel that no start_parallel goes with

\* an end_parallel without its assertion
no_assert(n) == TRUE

\* assert!(lock_state.parallels > 0) / assert!(self.parallel_count > 0)
assert_positive(n) == n > 0

\* Locks::end_parallel on key k by a thread that holds nothing, the count
\* being 0: the whole method runs with the mutex of the lock state held; the
\* panic of the assertion drops the mutex guard and reaches the caller
EndParallelUnpaired(t, k) ==
    /\ pc[t] = "ready"
    /\ stack[t] = << >>
    /\ call[t] = NoCall
    /\ parallels[k] = 0
    /\ IF assert_positive(parallels[k])
       THEN /\ parallels' = [parallels EXCEPT ![k] = @ - 1]
            /\ notify_one(k, pc, pc')
            /\ UNCHANGED observed
       ELSE /\ observed' = [observed EXCEPT ![t] = "panic"]
            /\ pc' = [pc EXCEPT ![t] = "returned"]
            /\ UNCHANGED parallels
    /\ UNCHANGED <<serial, reentered, stack, regVars, callVars, fileVars, work>>

\* make_lock_for_name_and_path(name, path) by a participant that is in no
\* parallel section, the count of the path being 0: Lock::new
UnpairedNew(t, k) ==
    /\ pc[t] = "ready"
    /\ stack[t] = << >>
    /\ call[t] = NoCall
    /\ flock[k] = None
    /\ read_parallel_count(sidecar[k]) = 0
    /\ created' = created \cup {k}
    /\ flock' = lock(flock, k, t)
    /\ stack' = [stack EXCEPT ![t] = <<FileLock("locked", k, read_parallel_count(sidecar[k]))>>]
    /\ pc' = [pc EXCEPT ![t] = "end_unpaired"]
    /\ UNCHANGED <<lockVars, regVars, callVars, sidecar, outVars>>

\* Lock::end_parallel on that Lock: the panic of the assertion drops the
\* Lock, and the LockFile in it gives the advisory lock back
UnpairedEnd(t) ==
    /\ pc[t] = "end_unpaired"
    /\ IF assert_positive(Top(t).parallel_count)
       THEN /\ sidecar' = [sidecar EXCEPT ![Top(t).key] =
                  write_parallel(CountAfterEnd(Top(t).parallel_count))]
            /\ UNCHANGED observed
       ELSE /\ observed' = [observed EXCEPT ![t] = "panic"]
            /\ UNCHANGED sidecar
    /\ flock' = unlock(flock, Top(t).key)
    /\ stack' = [stack EXCEPT ![t] = << >>]
    /\ pc' = [pc EXCEPT ![t] = "returned"]
    /\ UNCHANGED <<lockVars, regVars, callVars, created, work>>

\* threads use Locks, not nested, and file-parallel sections, in pairs of
\* start and end, and also call end_parallel alone
NextUnpaired ==
    \E t \in Threads :
        \/ \E k \in Keys : stack[t] = << >> /\ Serial(t, k)
        \/ \E k \in Keys : stack[t] = << >> /\ StartParallel(t, k)
        \/ EndParallel(t)
        \/ LocksStep(t)
        \/ \E k \in Keys : EndParallelUnpaired(t, k)
        \/ \E k \in Keys : FsCall(t, "fs_parallel_core", <<k>>, NoPath)
        \/ LockNew(t)
        \/ StartParallelFile(t)
        \/ FsWorkEnds(t, "ok")
        \/ EndNew(t)
        \/ EndParallelFile(t)
        \/ Leave(t)
        \/ GoOn(t)
        \/ \E k \in Keys : UnpairedNew(t, k)
        \/ UnpairedEnd(t)

SpecUnpaired == Init /\ [][NextUnpaired]_vars

\* Processes that each make one call: the serial callers, and one more
\* process that runs a file-parallel section
Procs == 1..(NumThreads + 1)

Outsider == NumThreads + 1

InitProcs ==
    /\ pc = [p \in Procs |-> "ready"]
    /\ stack = [p \in Procs |-> << >>]
    /\ call = [p \in Procs |-> NoCall]
    /\ seen = [t \in Threads |-> 0]
    /\ work = [p \in Procs |-> "none"]
    /\ observed = [p \in Procs |-> "none"]

\* every serial caller gives its names in sorted order
NextFileOnce ==
    \/ \E t \in Threads : \E ns \in NameLists : FsCall(t, "fs_serial_core", sort(ns), NoPath)
    \/ \E k \in Keys : FsCall(Outsider, "fs_parallel_core", <<k>>, NoPath)
    \/ \E p \in Procs : GetLocks(p)
    \/ \E p \in Procs : FileStep(p)

InitOnce == InitLocks /\ InitRegistry /\ InitFiles /\ InitProcs

SpecFileOnce == InitOnce /\ [][NextFileOnce]_vars

----
\* What a thread holds, as the thread sees it

HoldsSerial(t, k) == \E i \in 1..Len(Held(t)) : Held(t)[i] = Frame("serial", k)

HoldsParallel(t, k) == \E i \in 1..Len(Held(t)) : Held(t)[i] = Frame("parallel", k)

SerialHolders(k) == {t \in Threads : HoldsSerial(t, k)}

ParallelHolders(k) == {t \in Threads : HoldsParallel(t, k)}

TypeOK ==
    /\ parallels \in [Keys -> Nat]
    /\ \A k \in Keys : serial[k].owner \in Threads \cup {None}
    /\ \A t \in Threads : Len(stack[t]) <= MaxDepth

----
\* Claims about Locks (rwlock.rs), checked under Spec

InSerialCall(t, k) ==
    /\ pc[t] \in {"serial_wait", "serial_woken"}
    /\ Top(t).key = k

InParallelCall(t, k) ==
    /\ pc[t] \in {"parallel_wait", "parallel_woken"}
    /\ Top(t).key = k

\* C1: for every key, at most one thread at a time is inside a serial
\* section on it: a second thread that asks for serial on the key gets its
\* guard only after the first thread has dropped its own.
C1_SerialExclusion == \A k \in Keys : Cardinality(SerialHolders(k)) <= 1

\* a thread is inside a serial section while another has asked for serial on
\* the same key and waits
C1_Witness ==
    \E k \in Keys : \E t, u \in Threads :
        t # u /\ HoldsSerial(t, k) /\ InSerialCall(u, k)

\* C2: no thread is inside a parallel section on a key while a different
\* thread is inside a serial section on that key.
C2_SerialParallelExclusion ==
    \A k \in Keys : \A t, u \in Threads :
        t # u => ~(HoldsParallel(t, k) /\ HoldsSerial(u, k))

\* C3: in every reachable state at most one thread holds the serial lock of
\* a key; if one does, parallels of the key is 0; if parallels of the key is
\* above 0, no thread holds its serial lock.
C3_ModeInvariant ==
    \A k \in Keys :
        /\ Cardinality(SerialHolders(k)) <= 1
        /\ Cardinality(SerialHolders(k)) = 1 => parallels[k] = 0
        /\ parallels[k] > 0 => SerialHolders(k) = {}

\* thread t runs an iteration of the loop of start_parallel on key k in this step
ParallelIteration(t, k) ==
    \/ pc[t] = "ready" /\ stack'[t] = Append(stack[t], Frame("parallel", k))
    \/ pc[t] = "parallel_woken" /\ Top(t).key = k /\ pc'[t] # pc[t]

\* C4: start_parallel on a key whose count is above 0 returns without waiting
\* on the condition variable and raises the count by exactly 1, whoever waits
\* on the key; on a key that nobody holds every caller is admitted, so the
\* count of N callers that have not ended is N.
C4_ParallelCoexist ==
    [][\A t \in Threads : \A k \in Keys :
        (ParallelIteration(t, k) /\ (parallels[k] > 0 \/ serial[k].owner = None))
            => /\ pc'[t] = "ready"
               /\ parallels'[k] = parallels[k] + 1]_vars

\* two participations are open on a key while a serial acquirer waits on it
C4_Witness ==
    \E k \in Keys : \E u \in Threads :
        parallels[k] >= 2 /\ InSerialCall(u, k)

\* C5: a thread inside a serial section on a key that asks for serial on the
\* key again is admitted without blocking; from then on, until its outermost
\* guard is released, no other thread is inside a serial or a parallel
\* section on the key.
C5_Reentrancy ==
    \A k \in Keys : \A t \in Threads :
        /\ HoldsSerial(t, k) => ~InSerialCall(t, k)
        /\ (serial[k].owner = t /\ reentered[k]) =>
              \A u \in Threads \ {t} : ~HoldsSerial(u, k) /\ ~HoldsParallel(u, k)

----
\* Claims about the registry and code_lock.rs, checked under SpecCodeLock

\* the names of the call thread t is in
NamesOf(t) == {call[t].names[i] : i \in 1..Len(call[t].names)}

\* thread t cannot go on before thread u has released something: a read
\* guard of the registry, the mutex of the key, or the serial lock or a
\* parallel participation of the key
WaitsFor(t, u) ==
    \/ pc[t] = "write" /\ readers[u] > 0
    \/ pc[t] = "mutex" /\ serial[CurrentName(t)].owner = u
    \/ /\ pc[t] \in WaitPcs \cup WokenPcs
       /\ serial[Top(t).key].owner = u \/ HoldsParallel(u, Top(t).key)

\* the key thread t asks for
AskedKey(t) == IF pc[t] \in WaitPcs \cup WokenPcs THEN Top(t).key ELSE CurrentName(t)

\* C6: disjoint keys never block each other: a thread that asks for a key,
\* the first use of the key with its check_new_key included, waits for no
\* thread whose call is on other keys only.
C6_DisjointKeys ==
    \A t, u \in Threads :
        (t # u /\ WaitsFor(t, u)) => AskedKey(t) \in NamesOf(u)

\* the keys that have an entry in the registry
Registered == {k \in Keys : LOCKS[k] # 0}

\* C7: however many threads call check_new_key for a new key at once, each
\* key of the registry got its entry by one construction (MUTEX_ID has been
\* drawn once per entry), the entries are different lock objects, and a
\* thread that looks the key up finds the object that is in the registry.
C7_ExactlyOnce ==
    /\ MUTEX_ID = 1 + Cardinality(Registered)
    /\ \A j, k \in Registered : LOCKS[j] = LOCKS[k] => j = k
    /\ \A t, u \in Threads :
          (pc[t] \in {"mutex", "run"} /\ pc[u] \in {"mutex", "run"}
              /\ call[t].names[1] = call[u].names[1]) => seen[t] = seen[u]
    /\ \A t \in Threads :
          pc[t] \in {"mutex", "run"} => seen[t] # 0 /\ seen[t] = LOCKS[call[t].names[1]]

\* two threads found the key new; one has created the entry and has looked it
\* up, the other is still about to take the write lock
C7_Witness ==
    \E t, u \in Threads :
        /\ t # u
        /\ pc[t] = "write" /\ LOCKS[CurrentName(t)] # 0
        /\ pc[u] = "locate" /\ CurrentName(u) = CurrentName(t)

----
\* Claims about the multi-key entry points

\* thread t is inside the function, or future, of a call of f
Running(t, f) == pc[t] = "run" /\ call[t].fn = f

\* C8: callers whose tests are tagged with overlapping key sets written in
\* different orders, serial or parallel, never deadlock: if every function
\* that was entered returns, every caller gets all its keys, runs its
\* function and ends.
C8_NoDeadlock == <>[](\A t \in Threads : pc[t] = "done")

\* a caller tagged (b, a) waits for a, the first of its names after the sort,
\* while a caller of the other mode tagged (a, b) runs its function
C8_Witness ==
    \E t, u \in Threads :
        /\ t # u
        /\ call[t].names = get_config(<<"b", "a">>)
        /\ call[u].names = get_config(<<"a", "b">>)
        /\ call[t].fn # call[u].fn
        /\ pc[t] \in WaitPcs /\ Top(t).key = "a"
        /\ pc[u] = "run"

\* C9: while the function of local_serial_core runs, the caller holds the
\* serial lock of every one of its names.
C9_AllHeld ==
    \A t \in Threads :
        Running(t, "local_serial_core") =>
            \A k \in NamesOf(t) : serial[k].owner = t /\ HoldsSerial(t, k)

\* the function of a call with two names runs while another thread waits for
\* one of them
C9_Witness ==
    \E t, u \in Threads :
        /\ Running(t, "local_serial_core")
        /\ Len(call[t].names) = 2
        /\ u # t /\ pc[u] \in WaitPcs /\ Top(u).key \in NamesOf(t)

\* thread t is inside the future of an async serial entry point
InFuture(t) == pc[t] = "run" /\ call[t].fn \in AsyncFns

\* C10: while the future of local_async_serial_core or
\* local_async_serial_core_with_return runs, the caller holds the serial lock
\* of every one of its names, so two such futures whose calls share a name
\* never run at the same time.
C10_AsyncExclusion ==
    \A t \in Threads :
        InFuture(t) =>
            /\ \A k \in NamesOf(t) : serial[k].owner = t
            /\ \A u \in Threads \ {t} : InFuture(u) => NamesOf(t) \cap NamesOf(u) = {}

----
\* Claims about the outcome of the protected work

\* C11: when the work of local_serial_core or local_parallel_core has
\* panicked and the panic has left the entry point, the caller owns the
\* serial lock of none of the requested keys and parallels of each of them
\* counts the participants that are still inside, no more and no less.
C11_ReleasedAfterPanic ==
    \A t \in Threads :
        (pc[t] = "returned" /\ observed[t] = "panic") =>
            \A k \in NamesOf(t) :
                /\ serial[k].owner # t
                /\ stack[t] = << >>
                /\ parallels[k] = Cardinality(ParallelHolders(k))

\* a panic has left local_parallel_core called with two keys while another
\* thread is inside a parallel section on one of them
C11_Witness ==
    \E t, u \in Threads :
        /\ t # u
        /\ pc[t] = "returned" /\ observed[t] = "panic"
        /\ call[t].fn = "local_parallel_core" /\ Len(call[t].names) = 2
        /\ pc[u] = "run" /\ \E k \in NamesOf(t) : HoldsParallel(u, k) /\ parallels[k] = 1

----
\* Claims about the file locks (file_lock.rs), checked under SpecFile

\* participant t is inside a file-serial section that covers path k
InFileSerial(t, k) ==
    /\ pc[t] = "run"
    /\ call[t].fn \in SerialFileFns
    /\ \E i \in 1..Len(stack[t]) : stack[t][i].key = k

\* participant t is inside a file-parallel section on path k: start_parallel
\* has returned, the Lock::new of the end has not
InFileParallel(t, k) ==
    /\ pc[t] \in {"run", "end_new"}
    /\ call[t].fn \in ParallelFileFns
    /\ Top(t).key = k

FileSerials(k) == {t \in Threads : InFileSerial(t, k)}

FileParallels(k) == {t \in Threads : InFileParallel(t, k)}

\* C13: on one path, at most one participant is inside a file-serial section
\* at a time, and no participant is inside a file-parallel section while one
\* is inside a file-serial section.
C13_FileExclusion ==
    \A k \in Keys :
        /\ Cardinality(FileSerials(k)) <= 1
        /\ FileSerials(k) # {} => FileParallels(k) = {}

\* a serial participant is inside on a path where another one, having found
\* the count above 0 before, sleeps in start_serial
C13_Witness ==
    \E t, u \in Threads : \E k \in Keys :
        /\ t # u
        /\ InFileSerial(t, k)
        /\ pc[u] = "sleep"
        /\ stack[u][Pending(u)].key = k

\* C14: once Lock::start_parallel has returned, the participant does not
\* hold the advisory lock of the path, so that participants of file-parallel
\* sections on one path do not keep each other out.
C14_ParallelUnlocked ==
    \A t \in Threads : \A k \in Keys :
        InFileParallel(t, k) /\ pc[t] = "run" => flock[k] # t

\* every participant is inside a file-parallel section on the same path
C14_Witness ==
    \E k \in Keys :
        /\ \A t \in Threads : InFileParallel(t, k) /\ pc[t] = "run"
        /\ read_parallel_count(sidecar[k]) = NumThreads

Counted(k) ==
    {t \in Threads :
        /\ pc[t] \in {"run", "end_new", "end_parallel"}
        /\ call[t].fn \in ParallelFileFns
        /\ Top(t).key = k}

\* C16: after the protected work has panicked inside fs_serial_core the
\* caller holds the advisory lock of none of its paths (the lock is free when
\* nobody else has taken it); after it has panicked inside fs_parallel_core
\* the count persisted for the path is the number of the other participants
\* still inside, 0 when there is none.
C16_FileReleasedAfterPanic ==
    \A t \in Threads :
        (pc[t] = "returned" /\ work[t] = "panic") =>
            \A k \in NamesOf(t) :
                /\ flock[k] # t
                /\ (\A u \in Threads \ {t} : pc[u] = "ready") => ~is_locked(k)
                /\ read_parallel_count(sidecar[k]) = Cardinality(Counted(k))

\* a panic has left fs_serial_core on two keys and another has left
\* fs_parallel_core: the locks are free and the counts are 0
C16_Witness ==
    \E t, u \in Threads :
        /\ pc[t] = "returned" /\ work[t] = "panic"
        /\ call[t].fn \in SerialFileFns
        /\ Len(call[t].names) = 2
        /\ pc[u] = "returned" /\ work[u] = "panic"
        /\ call[u].fn \in ParallelFileFns
        /\ \A k \in Keys : ~is_locked(k) /\ read_parallel_count(sidecar[k]) = 0
        /\ \E k \in NamesOf(u) : sidecar[k] = File(to_ne_bytes(0))

\* the request of t names more than one key together with an explicit path
Ambiguous(t) ==
    /\ call[t].fn \in SerialFileFns
    /\ Len(call[t].names) > 1
    /\ call[t].path # NoPath

\* C17: a file request with more than one key and an explicit path fails in
\* get_locks with a panic, before it has created or locked a lock file or
\* read or written a count: the caller never gets past get_locks, holds no
\* Lock, and the step that rejects the request leaves every file as it was.
\* A request with one key, or the default key, and an explicit path is let
\* through, so that when it has returned its work has run.
C17_EagerRejection ==
    /\ [](\A t \in Threads :
            IF Ambiguous(t)
            THEN /\ pc[t] \in {"get_locks", "returned"}
                 /\ stack[t] = << >>
                 /\ \A k \in Keys : flock[k] # t
                 /\ pc[t] = "returned" => observed[t] = "panic" /\ work[t] = "none"
            ELSE (call[t].fn \in SerialFileFns /\ pc[t] = "returned") => work[t] # "none")
    /\ [][\A t \in Threads :
            (Ambiguous(t) /\ pc[t] = "get_locks" /\ pc'[t] # "get_locks") =>
                UNCHANGED fileVars]_vars

\* a request with two keys and a path has been rejected and the lock file of
\* its path does not exist, while the work of a request with the default key
\* and another path runs
C17_Witness ==
    \E t, u \in Threads : \E k \in Keys :
        /\ Ambiguous(t) /\ pc[t] = "returned" /\ observed[t] = "panic"
        /\ call[t].path # k
        /\ created = {k}
        /\ call[u].fn \in SerialFileFns
        /\ call[u].names = <<DefaultKey>>
        /\ call[u].path = k
        /\ pc[u] = "run"

----
\* Claims about the persisted count, checked under SpecCount

\* the sidecar is missing or holds fewer than 4 bytes
Short(file) == ~file.exists \/ Len(file.bytes) < 4

\* C18: when write_parallel has written the count c of a Lock, the sidecar
\* holds 4 bytes and read_parallel_count on it gives exactly c, for c up to
\* 2^31 - 1; when read_parallel_count finds no sidecar or fewer than 4 bytes
\* the count it gives is 0.
C18_RoundTrip ==
    [][\A t \in Threads :
        pc[t] = "locked" =>
            /\ sidecar' # sidecar =>
                /\ sidecar'[Top(t).key].exists
                /\ Len(sidecar'[Top(t).key].bytes) = 4
                /\ read_parallel_count(sidecar'[Top(t).key]) = Top(t).parallel_count
            /\ (stack' # stack /\ Short(sidecar[Top(t).key])) =>
                stack'[t][1].parallel_count = 0]_vars

\* the largest count has been written over what the sidecar held
C18_Witness ==
    \E t \in Threads : \E k \in Keys :
        /\ pc[t] = "locked"
        /\ Top(t).key = k
        /\ sidecar[k] = File(<<255, 255, 255, 127>>)
        /\ Top(t).parallel_count = 2147483647

----
\* Claims about the questions a caller can ask

\* the entry points that make a serial section
SerialFns == {"local_serial_core"} \cup AsyncFns

\* thread t is inside a serial section on key k: the function or future of a
\* serial entry point called with k runs
InSerialSection(t, k) ==
    /\ pc[t] = "run"
    /\ call[t].fn \in SerialFns
    /\ k \in NamesOf(t)

\* C19: is_locked_serially(key), asked by a thread between its calls or from
\* inside its function, is true exactly when that thread is inside a serial
\* section on the key: false when another thread holds the serial lock, when
\* the key is held in parallel mode only, when nobody holds it and after the
\* thread's serial section has ended.
C19_RelativeToCaller ==
    \A t \in Threads :
        pc[t] \in {"ready", "run"} =>
            \A k \in Keys : is_locked_serially(t, k) <=> InSerialSection(t, k)

\* C20: is_locked_file_serially on a path, asked by a participant between
\* its calls or from inside its work, is true exactly when some participant
\* is inside a file-serial section on the path, whatever the waiting serial
\* callers, the starting and ending parallel participants and the other
\* askers are doing.
C20_FileSerialExactly ==
    \A k \in Keys :
        (\E u \in Threads : pc[u] \in {"ready", "run"}) =>
            (is_locked(k) <=> FileSerials(k) # {})

----
\* Claims about failures of the callers

\* C21: end_parallel called while the parallel count of the key or path is 0
\* fails with the panic of its assertion and changes nothing: in Locks the
\* count and the serial lock stay as they were and no waiter is touched; in
\* the file variant the sidecar is not written, the count read from it is
\* still 0, and the advisory lock is free again, so that later acquisitions
\* find the key or path as it was.
C21_UnpairedEndFatal ==
    [][\A t \in Threads :
        /\ (pc[t] = "ready" /\ call[t] = NoCall /\ stack[t] = << >> /\ pc'[t] = "returned") =>
            /\ observed'[t] = "panic"
            /\ parallels' = parallels
            /\ serial' = serial
            /\ \A u \in Threads \ {t} : pc'[u] = pc[u]
        /\ (pc[t] = "end_unpaired" /\ pc'[t] # "end_unpaired") =>
            /\ observed'[t] = "panic"
            /\ sidecar' = sidecar
            /\ read_parallel_count(sidecar'[Top(t).key]) = 0
            /\ flock'[Top(t).key] = None]_vars

\* a thread has got the panic of an unpaired end_parallel while another, in
\* the file variant, holds the Lock of a path whose count is 0 and is about to
\* call end_parallel on it
C21_Witness ==
    \E t, u \in Threads : \E k \in Keys :
        /\ pc[t] = "returned" /\ observed[t] = "panic" /\ call[t] = NoCall
        /\ pc[u] = "end_unpaired"
        /\ Top(u).key = k
        /\ parallels[k] = 0
        /\ read_parallel_count(sidecar[k]) = 0

----
\* Claims about the parallel count of Locks, checked under Spec

\* the calls of start_parallel on key k that have returned and whose
\* end_parallel has not been called: thread and place in its stack
Participations(k) ==
    {p \in Threads \X (1..MaxDepth) :
        /\ p[2] <= Len(Held(p[1]))
        /\ Held(p[1])[p[2]] = Frame("parallel", k)}

\* C22, as stated: parallels of a key is the number of threads that have
\* returned from start_parallel on it and not yet called end_parallel.
C22_CountOfThreads ==
    \A k \in Keys : parallels[k] = Cardinality(ParallelHolders(k))

\* C22, amended: parallels of a key is the number of calls of start_parallel
\* on it that have returned and whose end_parallel has not been called yet, a
\* thread inside nested parallel sections counting once for each; hence
\* parallels is 0 once every participation has ended.
C22_CountOfParticipations ==
    \A k \in Keys : parallels[k] = Cardinality(Participations(k))

\* two threads are inside parallel sections on one key, one of them twice
C22_Witness ==
    \E k \in Keys : \E t, u \in Threads :
        /\ t # u
        /\ parallels[k] = 3
        /\ Cardinality(ParallelHolders(k)) = 2
        /\ pc[t] = "ready" /\ pc[u] = "ready"

----
\* Claims about waiting, checked under SpecWait

\* thread t is inside a call of Locks::serial that has not returned
Acquiring(t) == pc[t] \in {"serial_wait", "serial_woken"}

\* C23: a serial acquisition that stays blocked does not wait forever: once
\* the configured maximum wait has passed it ends, with a fatal failure if it
\* has not got the guard.
C23_MaxWait == \A t \in Threads : Acquiring(t) ~> ~Acquiring(t)

\* participant t is on its way into a file section: in Lock::new, in
\* start_serial or before start_parallel
Entering(t) == pc[t] \in {"get_locks", "new", "start_serial", "sleep", "start_parallel"}

\* C24: whatever point other processes have ended abnormally at, a process
\* that asks for a file-serial or file-parallel section on the path gets into
\* it in the end (unless it ends abnormally itself).
C24_RecoveryAfterCrash ==
    \A t \in Threads : Entering(t) ~> (pc[t] \in {"run", "dead"})

----
\* Claims about the attributes, checked under SpecConfig

\* the elements of a list
Elements(s) == {s[i] : i \in 1..Len(s)}

\* the list is in ascending order of its keys
Ascending(s) == \A i, j \in 1..Len(s) : i < j => KeyRank(s[i]) <= KeyRank(s[j])

Configured(t) == pc[t] = "configured"

\* C25: the names get_config gives for an attribute are its keys in ascending
\* order, whatever order they were written in, so that two attributes with
\* the same set of keys get the same list; an attribute without a key, with
\* or without a path, gets the list of the empty key alone.
C25_CanonicalKeys ==
    \A t \in Threads :
        Configured(t) =>
            /\ IF call[t].attr = << >>
               THEN call[t].names = <<DefaultKey>>
               ELSE /\ Elements(call[t].names) = Elements(call[t].attr)
                    /\ Len(call[t].names) = Len(call[t].attr)
                    /\ Ascending(call[t].names)
            /\ \A u \in Threads :
                (Configured(u) /\ Elements(call[u].attr) = Elements(call[t].attr)) =>
                    call[u].names = call[t].names

\* two attributes with the same two keys in different orders, and the names
\* made of them
C25_Witness ==
    \E t, u \in Threads :
        /\ Configured(t) /\ Configured(u)
        /\ call[t].attr = <<"b", "a">>
        /\ call[u].attr = <<"a", "b">>
        /\ call[t].names = <<"a", "b">>
        /\ call[u].names = <<"a", "b">>

\* C26: an entry point called with an empty list of keys fails with a panic
\* and never runs the protected work.
C26_EmptyRejected ==
    \A t \in Threads :
        (call[t].fn # "none" /\ call[t].names = << >>) =>
            /\ pc[t] # "run"
            /\ work[t] = "none"
            /\ pc[t] = "returned" => observed[t] = "panic"

\* a thread inside the loop of serial or start_parallel
Blocked(t) == pc[t] \in WaitPcs \cup WokenPcs

\* the call of serial or start_parallel has returned
Admitted(t) == pc[t] = "ready" /\ stack[t] # << >>

\* C27: when every holder releases in the end, a thread blocked in serial or
\* in start_parallel is admitted in the end, whatever the other threads go on
\* asking for.
C27_NoStarvation == \A t \in Threads : Blocked(t) ~> Admitted(t)

\* the condition under which the loop the thread is in returns: serial needs
\* no parallel participant and a try_lock that succeeds, start_parallel a
\* participant or a try_lock that succeeds
Admissible(t) ==
    IF pc[t] \in {"serial_wait", "serial_woken"}
    THEN parallels[Top(t).key] = 0 /\ try_lock(t, Top(t).key)
    ELSE parallels[Top(t).key] > 0 \/ try_lock(t, Top(t).key)

\* C28: a thread does not stay in the loop of serial or start_parallel for
\* ever while its key is admissible for it: it looks again after every wake-up
\* and after the wait interval at the latest, notified or not.
C28_MissedNotification ==
    \A t \in Threads : []<>~(Blocked(t) /\ Admissible(t))

\* a thread sleeps in wait_for on a free key and no notification is on its
\* way: for instance the notify_one of the drop woke it before the lock was
\* released, and it went back to sleep
C28_Witness ==
    \E t \in Threads :
        /\ pc[t] = "serial_wait"
        /\ Admissible(t)
        /\ serial[Top(t).key] = Unlocked
        /\ \A u \in Threads \ {t} : pc[u] = "ready" /\ stack[u] = << >>

\* the step gives key k back: the last guard of serial is dropped, or
\* end_parallel takes the count to 0
Idled(k) ==
    \/ serial[k] # Unlocked /\ serial'[k] = Unlocked
    \/ parallels[k] > 0 /\ parallels'[k] = 0

\* C29: the release that gives key k back wakes every thread that waits on
\* the condition variable of k.
C29_ReleaseWakesAll ==
    [][\A k \in Keys : Idled(k) => \A w \in Waiters(k) : pc'[w] = Woken(pc[w])]_vars

\* C30: an entry point takes its keys in ascending order, whatever the order
\* of the list it was given: a key it holds or waits for comes after every key
\* it took before.
C30_AscendingAcquisition ==
    \A t \in Threads :
        call[t].fn \in SyncFns =>
            \A i, j \in 1..Len(stack[t]) :
                i < j => KeyRank(stack[t][i].key) < KeyRank(stack[t][j].key)

\* the entry points that take several keys
MultiKeyFns == {"local_serial_core", "local_parallel_core", "fs_serial_core"}

\* C31: a multi-key entry point releases its keys in the reverse of the order
\* in which it acquired them: each release gives back the key acquired last
\* among those still held.
C31_ReverseRelease ==
    [][\A t \in Threads :
        (call[t].fn \in MultiKeyFns /\ Len(stack'[t]) < Len(stack[t])) =>
            stack'[t] = Pop(t)]_vars

\* participant t is between a read of the count of path p and the write that
\* follows it
Updating(t, p) ==
    /\ pc[t] \in {"start_parallel", "end_parallel"}
    /\ Top(t).key = p

\* the step is a read_parallel_count of path p by participant t: in Lock::new
\* (of a start or of an end) or after the sleep of start_serial
Reads(t, p) ==
    \/ pc[t] \in {"new", "end_new"} /\ pc'[t] # pc[t] /\ Top(t)'.key = p
    \/ pc[t] = "sleep" /\ pc'[t] # pc[t] /\ stack[t][Pending(t)].key = p

\* C32: the count of a path is read and written only by a participant that
\* holds the advisory lock of the path, and no two participants are between
\* their read and their write of one count at a time.
C32_CountUnderLock ==
    [][\A p \in Keys :
        /\ \A t \in Threads : Reads(t, p) => flock'[p] = t
        /\ sidecar'[p] # sidecar[p] => \E t \in Threads : Updating(t, p) /\ flock[p] = t
        /\ \A t, u \in Threads : (Updating(t, p) /\ Updating(u, p)) => t = u]_vars

\* a participant holds the lock between its read and its write while another
\* one is about to make its Lock on the same path
C32_Witness ==
    \E t, u \in Threads : \E p \in Keys :
        /\ Updating(t, p)
        /\ pc[t] = "end_parallel"
        /\ flock[p] = t
        /\ pc[u] = "new"
        /\ NextPath(u) = p
        /\ read_parallel_count(sidecar[p]) > 0

\* C33: whenever nobody holds the advisory lock of a path, the persisted
\* count of the path is the number of participants inside a file-parallel
\* section on it; it is 0 when there is none.
C33_CountOfParticipants ==
    \A p \in Keys :
        flock[p] = None =>
            read_parallel_count(sidecar[p]) = Cardinality(FileParallels(p))

\* two sections on one path overlap and the one that started is about to end
\* while the other one goes on
C33_Witness ==
    \E t, u \in Threads : \E p \in Keys :
        /\ t # u
        /\ InFileParallel(t, p) /\ pc[t] = "end_new"
        /\ InFileParallel(u, p) /\ pc[u] = "run"
        /\ flock[p] = None
        /\ read_parallel_count(sidecar[p]) = 2

\* participant t is inside Lock::start_serial
Polling(t) ==
    /\ call[t].fn \in SerialFileFns
    /\ pc[t] \in {"start_serial", "sleep"}

\* C34: start_serial on one path returns only with the advisory lock held and
\* a count of 0 read under it, so not before every file-parallel section on
\* the path has ended; between two polls it does not hold the lock; and it
\* returns in the end when every file-parallel section ends.
C34_StartSerialPolls ==
    /\ [](\A t \in Threads : \A p \in Keys :
            /\ InFileSerial(t, p) =>
                  /\ flock[p] = t
                  /\ read_parallel_count(sidecar[p]) = 0
                  /\ FileParallels(p) = {}
            /\ (Polling(t) /\ pc[t] = "sleep") => flock[stack[t][Pending(t)].key] # t)
    /\ \A t \in Threads : Polling(t) ~> (pc[t] = "run")

\* start_serial sleeps between two polls, the lock free, while the
\* participant it waits for is about to make the Lock of its end_parallel
C34_Witness ==
    \E t, u \in Threads : \E p \in Keys :
        /\ Polling(t) /\ pc[t] = "sleep"
        /\ stack[t][Pending(t)].key = p
        /\ InFileParallel(u, p) /\ pc[u] = "end_new"
        /\ flock[p] = None
        /\ read_parallel_count(sidecar[p]) = 1

\* C35: check_new_key of a registered key goes from the probe straight on,
\* without asking for the write lock, and leaves the registry as it is; and
\* no step removes or replaces the lock object of a registered key.
C35_RegistryStable ==
    [][/\ \A t \in Threads :
            (pc[t] = "check" /\ LOCKS[CurrentName(t)] # 0 /\ pc'[t] # "check") =>
                /\ pc'[t] = "locate"
                /\ LOCKS' = LOCKS
                /\ MUTEX_ID' = MUTEX_ID
       /\ \A k \in Keys : LOCKS[k] # 0 => LOCKS'[k] = LOCKS[k]]_vars

\* a thread runs under the lock object of a key while another one, which
\* found the key missing before it was registered, is about to write
C35_Witness ==
    \E t, u \in Threads : \E k \in Keys :
        /\ t # u
        /\ pc[t] = "run" /\ call[t].names = <<k>>
        /\ pc[u] = "write" /\ call[u].names = <<k>>
        /\ LOCKS[k] # 0

\* thread t is in a call of local_serial_core made from inside another one
Nested(t) ==
    /\ call[t].fn = "code_lock::local_serial_core"
    /\ Len(call[t].names) = 2

\* C36: a call of serial code with key k2 from inside a serial section on
\* another key does not end in a panic, whether k2 is registered or not.
C36_NestedAdmitted == \A t \in Threads : Nested(t) => pc[t] # "panicked"

\* the path a request with one name is about: the explicit path when there
\* is one, else the path of the name
Resolved(t) == IF call[t].path # NoPath THEN call[t].path ELSE call[t].names[1]

\* participant t has made a request of a file entry point
Requests(t) == call[t].fn \in SerialFileFns \cup ParallelFileFns

\* C37: two requests exclude each other exactly when they resolve to the same
\* path: no two participants are inside file-serial sections, or inside a
\* file-serial and a file-parallel section, of requests with the same
\* resolved path, whatever their names; every Lock a request holds is on its
\* resolved path; and a request waits in Lock::new only while the lock of its
\* resolved path is held.
C37_PathIdentity ==
    \A t \in Threads :
        Requests(t) =>
            /\ \A u \in Threads \ {t} :
                  (/\ Requests(u)
                   /\ Resolved(u) = Resolved(t)
                   /\ call[t].fn \in SerialFileFns
                   /\ pc[t] = "run") => pc[u] # "run"
            /\ \A i \in 1..Len(stack[t]) : stack[t][i].key = Resolved(t)
            /\ pc[t] = "new" => (ENABLED LockNew(t) <=> flock[Resolved(t)] = None)

\* a request with one name and an explicit path is inside its section while
\* requests with another name wait for the same path: one names the path,
\* the other one is the path of its name
C37_Witness ==
    \E t, u \in Threads :
        /\ t # u
        /\ Requests(t) /\ call[t].fn \in SerialFileFns /\ pc[t] = "run"
        /\ Requests(u) /\ pc[u] = "new"
        /\ call[t].path # NoPath
        /\ call[t].names # call[u].names
        /\ call[t].names[1] # call[t].path
        /\ Resolved(u) = Resolved(t)

\* the files of the Lock of participant t
FilesOf(t) == {stack[t][1].lockfile, stack[t][1].countfile}

\* C38: the Locks of two requests with different lock files share no file:
\* neither the lock file nor the count file of one is the lock file or the
\* count file of the other.
C38_DisjointFiles ==
    \A t, u \in Threads :
        (/\ pc[t] = "made"
         /\ pc[u] = "made"
         /\ stack[t][1].lockfile # stack[u][1].lockfile) =>
            FilesOf(t) \cap FilesOf(u) = {}

\* thread t takes part in the step
Acts(t) == pc'[t] # pc[t] \/ stack'[t] # stack[t]

\* the key, or path, of the operation thread t takes part in: that of the
\* frame it adds, else that of its last frame
OpKey(t) ==
    IF Len(stack'[t]) > Len(stack[t]) THEN stack'[t][Len(stack'[t])].key ELSE Top(t).key

====
